---- MODULE Spec2Model ----
(***************************************************************************)
(* Model of the vdsotest driver (src/src/vdsotest.c): the run context,     *)
(* failure accounting, the deadline timer with its asynchronous expiry     *)
(* handler, the three mode dispatchers and main().  The suite entry points *)
(* (ts->verify, ts->bench, ts->abi) and the helpers of util.h live outside *)
(* this file; they are modelled from their contract.                       *)
(***************************************************************************)
EXTENDS Integers, Sequences, FiniteSets, TLC

VARIABLES
    pc,               \* position of the (single) main thread
    ret_pc,           \* where log_failure returns to
    configured,       \* ctx.duration as left by argp_parse
    ctx,              \* struct ctx
    test_suite_htab,  \* suite registry
    test_func_htab,   \* mode registry
    ts,               \* main: const struct test_suite *ts
    tf,               \* main: testfunc_t tf
    tf_ret,           \* main: enum testfunc_result tf_ret
    ret,              \* process exit status
    timers,           \* POSIX timers created so far, in creation order
    bres,             \* struct bench_results of the running bench
    calls,            \* iterations of the running suite loop
    stdout,           \* lines printed on stdout
    stderr,           \* lines printed on stderr
    handler_runs,     \* runs of expiration_handler since the last ctx_start_timer
    log_calls,        \* calls of log_failure so far
    entry_calls,      \* invocations of suite entry points so far
    tf_calls          \* invocations of dispatchers so far

vars == <<pc, ret_pc, configured, ctx, test_suite_htab, test_func_htab, ts, tf,
          tf_ret, ret, timers, bres, calls, stdout, stderr, handler_runs,
          log_calls, entry_calls, tf_calls>>

----------------------------------------------------------------------------
(* Bounds *)
MaxDuration == 1
MaxThreshold == 2
MaxCalls == 2
MaxElapsed == 2
MaxAbiChecks == 2

(* Program constants *)
EXIT_SUCCESS == 0
EXIT_FAILURE == 1
DEFAULT_DURATION == 1
DEFAULT_MAX_FAILS == 10
NSEC_PER_SEC == 1000000000

NULL == "NULL"
TF_OK == "TF_OK"
TF_FAIL == "TF_FAIL"
TF_NOIMPL == "TF_NOIMPL"
TF_NONE == "TF_NONE"

Modes == {"verify", "bench", "abi"}

----------------------------------------------------------------------------
(* util.h helpers *)

timespec_to_nsec(t) == t.tv_sec * NSEC_PER_SEC + t.tv_nsec

nsec_to_timespec(n) == [tv_sec |-> n \div NSEC_PER_SEC, tv_nsec |-> n % NSEC_PER_SEC]

hashtable_lookup(h, name) == IF name \in DOMAIN h THEN h[name] ELSE NULL

----------------------------------------------------------------------------
(* Context construction and option parsing *)

ctx_init_defaults ==
    [duration    |-> [tv_sec |-> DEFAULT_DURATION, tv_nsec |-> 0],
     max_fails   |-> DEFAULT_MAX_FAILS,
     fails       |-> 0,
     should_stop |-> FALSE,
     verbose     |-> FALSE,
     debug       |-> FALSE,
     api         |-> NULL,
     test_type   |-> NULL]

parse(c, key, arg) ==
    CASE key = "d"  -> [c EXCEPT !.duration.tv_sec = arg]
      [] key = "f"  -> [c EXCEPT !.max_fails = arg]
      [] key = "g"  -> [c EXCEPT !.debug = TRUE]
      [] key = "v"  -> [c EXCEPT !.verbose = TRUE]
      [] key = "arg0" -> [c EXCEPT !.api = arg]
      [] key = "arg1" -> [c EXCEPT !.test_type = arg]

(* variant: the bench and abi dispatchers registered under each other's name *)
register_testfuncs_swapped ==
    [m \in Modes |-> CASE m = "verify" -> "testsuite_run_verify"
                       [] m = "bench"  -> "testsuite_run_abi"
                       [] m = "abi"    -> "testsuite_run_bench"]

register_testfuncs ==
    [m \in Modes |-> CASE m = "verify" -> "testsuite_run_verify"
                       [] m = "bench"  -> "testsuite_run_bench"
                       [] m = "abi"    -> "testsuite_run_abi"]

(* struct test_suite objects of the API plugins: the entry points each has *)
SuiteObjects ==
    [ts_vba  |-> {"verify", "bench", "abi"},
     ts_vb   |-> {"verify", "bench"},
     ts_va   |-> {"verify", "abi"},
     ts_ba   |-> {"bench", "abi"},
     ts_v    |-> {"verify"},
     ts_b    |-> {"bench"},
     ts_a    |-> {"abi"},
     ts_none |-> {}]

(* Registries left by the plugins' register_testsuite calls: name -> suite *)
SuiteNames == {"gettimeofday", "getcpu"}
Registries ==
    {r \in [SuiteNames -> DOMAIN SuiteObjects] : r["gettimeofday"] = "ts_vba"}

ApiArgs == SuiteNames \cup {"bogus-api"}
TypeArgs == Modes \cup {"bogus"}
Durations == 0 .. MaxDuration
Thresholds == (0 .. MaxThreshold) \cup {DEFAULT_MAX_FAILS}
Flags == {<<>>, <<"v">>}

RECURSIVE parse_all(_, _)
parse_all(c, opts) ==
    IF opts = <<>> THEN c
    ELSE parse_all(parse(c, opts[1][1], opts[1][2]), Tail(opts))

Init ==
    /\ \E a \in ApiArgs, t \in TypeArgs, d \in Durations, f \in Thresholds,
          fl \in Flags, r \in Registries :
          /\ ctx = parse_all(ctx_init_defaults,
                     <<<<"d", d>>, <<"f", f>>>> \o [i \in 1 .. Len(fl) |-> <<fl[i], 0>>]
                     \o <<<<"arg0", a>>, <<"arg1", t>>>>)
          /\ test_suite_htab = r
    /\ configured = ctx.duration
    /\ test_func_htab = register_testfuncs
    /\ pc = "main_lookup_ts"
    /\ ret_pc = NULL
    /\ ts = NULL
    /\ tf = NULL
    /\ tf_ret = TF_NONE
    /\ ret = EXIT_SUCCESS
    /\ timers = <<>>
    /\ bres = [vdso |-> [calls |-> 0, calls_per_sec |-> 0],
               sys  |-> [calls |-> 0, calls_per_sec |-> 0]]
    /\ calls = 0
    /\ stdout = <<>>
    /\ stderr = <<>>
    /\ handler_runs = 0
    /\ log_calls = 0
    /\ entry_calls = 0
    /\ tf_calls = 0

----------------------------------------------------------------------------
(* Failure accounting *)

Alive == pc \notin {"exit", "fatal"}

(* log_failure: print the diagnostic, then enter inc_fail_count *)
log_failure ==
    /\ pc = "log_failure"
    /\ stderr' = Append(stderr, "failure")
    /\ pc' = "inc_fail_count"
    /\ UNCHANGED <<ret_pc, configured, ctx, test_suite_htab, test_func_htab, ts,
                   tf, tf_ret, ret, timers, bres, calls, stdout, handler_runs,
                   log_calls, entry_calls, tf_calls>>

(* inc_fail_count, line 28: ctx->fails++ *)
inc_fail_count_incr ==
    /\ pc = "inc_fail_count"
    /\ ctx' = [ctx EXCEPT !.fails = ctx.fails + 1]
    /\ pc' = "inc_fail_count_check"
    /\ UNCHANGED <<ret_pc, configured, test_suite_htab, test_func_htab, ts, tf,
                   tf_ret, ret, timers, bres, calls, stdout, stderr,
                   handler_runs, log_calls, entry_calls, tf_calls>>

(* variant: every failure stops the run, whatever the threshold *)
inc_fail_count_check_always ==
    /\ pc = "inc_fail_count_check"
    /\ ctx' = [ctx EXCEPT !.should_stop = TRUE]
    /\ IF ctx.fails >= ctx.max_fails
       THEN stderr' = Append(stderr, "threshold")
       ELSE UNCHANGED stderr
    /\ pc' = ret_pc
    /\ ret_pc' = NULL
    /\ UNCHANGED <<configured, test_suite_htab, test_func_htab, ts, tf, tf_ret,
                   ret, timers, bres, calls, stdout, handler_runs, log_calls,
                   entry_calls, tf_calls>>

(* variant: the threshold test written with > instead of >= *)
inc_fail_count_check_strict ==
    /\ pc = "inc_fail_count_check"
    /\ IF ctx.fails > ctx.max_fails
       THEN /\ ctx' = [ctx EXCEPT !.should_stop = TRUE]
            /\ stderr' = Append(stderr, "threshold")
       ELSE UNCHANGED <<ctx, stderr>>
    /\ pc' = ret_pc
    /\ ret_pc' = NULL
    /\ UNCHANGED <<configured, test_suite_htab, test_func_htab, ts, tf, tf_ret,
                   ret, timers, bres, calls, stdout, handler_runs, log_calls,
                   entry_calls, tf_calls>>

(* inc_fail_count, lines 29-33: the threshold test *)
inc_fail_count_check ==
    /\ pc = "inc_fail_count_check"
    /\ IF ctx.fails >= ctx.max_fails
       THEN /\ ctx' = [ctx EXCEPT !.should_stop = TRUE]
            /\ stderr' = Append(stderr, "threshold")
       ELSE UNCHANGED <<ctx, stderr>>
    /\ pc' = ret_pc
    /\ ret_pc' = NULL
    /\ UNCHANGED <<configured, test_suite_htab, test_func_htab, ts, tf, tf_ret,
                   ret, timers, bres, calls, stdout, handler_runs, log_calls,
                   entry_calls, tf_calls>>

inc_fail_count == inc_fail_count_incr \/ inc_fail_count_check

----------------------------------------------------------------------------
(* Deadline timer *)

(* variant: the handler also counts the expiry as a failure *)
expiration_handler_counts(i) ==
    /\ Alive
    /\ timers[i] = "armed"
    /\ timers' = [timers EXCEPT ![i] = "fired"]
    /\ ctx' = [ctx EXCEPT !.should_stop = TRUE, !.fails = ctx.fails + 1]
    /\ handler_runs' = handler_runs + 1
    /\ UNCHANGED <<pc, ret_pc, configured, test_suite_htab, test_func_htab, ts,
                   tf, tf_ret, ret, bres, calls, stdout, stderr, log_calls,
                   entry_calls, tf_calls>>

(* The signal handler of SIGRTMAX, run when timer i expires *)
expiration_handler(i) ==
    /\ Alive
    /\ timers[i] = "armed"
    /\ timers' = [timers EXCEPT ![i] = "fired"]
    /\ ctx' = [ctx EXCEPT !.should_stop = TRUE]
    /\ handler_runs' = handler_runs + 1
    /\ UNCHANGED <<pc, ret_pc, configured, test_suite_htab, test_func_htab, ts,
                   tf, tf_ret, ret, bres, calls, stdout, stderr, log_calls,
                   entry_calls, tf_calls>>

Expire == \E i \in DOMAIN timers : expiration_handler(i)

(* timer_settime with a zero it_value leaves the new timer disarmed *)
timer_settime(d) == IF d.tv_sec = 0 /\ d.tv_nsec = 0 THEN "disarmed" ELSE "armed"

(* variant: the re-arm keeps the stop flag of the previous cycle *)
ctx_start_timer_keeps_flag(from, to, os_ok) ==
    /\ pc = from
    /\ ctx' = ctx
    /\ handler_runs' = 0
    /\ IF os_ok
       THEN /\ timers' = Append(timers, timer_settime(ctx.duration))
            /\ pc' = to
            /\ UNCHANGED <<ret, stderr>>
       ELSE /\ pc' = "fatal"
            /\ ret' = EXIT_FAILURE
            /\ stderr' = Append(stderr, "error")
            /\ UNCHANGED timers
    /\ UNCHANGED <<ret_pc, configured, test_suite_htab, test_func_htab, ts, tf,
                   tf_ret, bres, stdout, log_calls, entry_calls, tf_calls>>

(* variant: the re-arm also clears the failure counter *)
ctx_start_timer_resets_fails(from, to, os_ok) ==
    /\ pc = from
    /\ ctx' = [ctx EXCEPT !.should_stop = FALSE, !.fails = 0]
    /\ handler_runs' = 0
    /\ IF os_ok
       THEN /\ timers' = Append(timers, timer_settime(ctx.duration))
            /\ pc' = to
            /\ UNCHANGED <<ret, stderr>>
       ELSE /\ pc' = "fatal"
            /\ ret' = EXIT_FAILURE
            /\ stderr' = Append(stderr, "error")
            /\ UNCHANGED timers
    /\ UNCHANGED <<ret_pc, configured, test_suite_htab, test_func_htab, ts, tf,
                   tf_ret, bres, stdout, log_calls, entry_calls, tf_calls>>

(* ctx_start_timer called at position `from`, returning to `to`; os_ok says *)
(* whether sigaction, timer_create and timer_settime all succeed            *)
ctx_start_timer(from, to, os_ok) ==
    /\ pc = from
    /\ ctx' = [ctx EXCEPT !.should_stop = FALSE]
    /\ handler_runs' = 0
    /\ IF os_ok
       THEN /\ timers' = Append(timers, timer_settime(ctx.duration))
            /\ pc' = to
            /\ UNCHANGED <<ret, stderr>>
       ELSE /\ pc' = "fatal"
            /\ ret' = EXIT_FAILURE
            /\ stderr' = Append(stderr, "error")
            /\ UNCHANGED timers
    /\ UNCHANGED <<ret_pc, configured, test_suite_htab, test_func_htab, ts, tf,
                   tf_ret, bres, stdout, log_calls, entry_calls, tf_calls>>

(* variant: halves the two fields of the timespec separately *)
split_duration_fields(d) == [tv_sec |-> d.tv_sec \div 2, tv_nsec |-> d.tv_nsec \div 2]

split_duration(d) == nsec_to_timespec(timespec_to_nsec(d) \div 2)

----------------------------------------------------------------------------
(* Suite entry points (plugins): cooperative loops polling ctx.should_stop *)

Min(a, b) == IF a < b THEN a ELSE b

call_log_failure(back) ==
    /\ pc' = "log_failure"
    /\ ret_pc' = back
    /\ log_calls' = log_calls + 1

ts_verify_start ==
    /\ \E os_ok \in BOOLEAN : ctx_start_timer("ts_verify", "ts_verify_loop", os_ok)
    /\ calls' = 0

(* the loop condition found false: run the body *)
ts_verify_poll ==
    /\ pc = "ts_verify_loop"
    /\ ~ctx.should_stop
    /\ pc' = "ts_verify_body"
    /\ UNCHANGED <<ret_pc, configured, ctx, test_suite_htab, test_func_htab, ts,
                   tf, tf_ret, ret, timers, bres, calls, stdout, stderr,
                   handler_runs, log_calls, entry_calls, tf_calls>>

ts_verify_pass ==
    /\ pc = "ts_verify_body"
    /\ calls' = Min(calls + 1, MaxCalls)
    /\ pc' = "ts_verify_loop"
    /\ UNCHANGED <<ret_pc, configured, ctx, test_suite_htab, test_func_htab,
                   ts, tf, tf_ret, ret, timers, bres, stdout, stderr,
                   handler_runs, log_calls, entry_calls, tf_calls>>

ts_verify_mismatch ==
    /\ pc = "ts_verify_body"
    /\ call_log_failure("ts_verify_loop")
    /\ UNCHANGED <<configured, ctx, test_suite_htab, test_func_htab, ts, tf,
                   tf_ret, ret, timers, bres, calls, stdout, stderr,
                   handler_runs, entry_calls, tf_calls>>

ts_verify_return ==
    /\ pc = "ts_verify_loop"
    /\ ctx.should_stop
    /\ pc' = "run_verify_ret"
    /\ UNCHANGED <<ret_pc, configured, ctx, test_suite_htab, test_func_htab, ts,
                   tf, tf_ret, ret, timers, bres, calls, stdout, stderr,
                   handler_runs, log_calls, entry_calls, tf_calls>>

(* abi: a fixed sequence of MaxAbiChecks checks, no timer *)
ts_abi_pass ==
    /\ pc = "ts_abi"
    /\ calls < MaxAbiChecks
    /\ calls' = calls + 1
    /\ UNCHANGED <<pc, ret_pc, configured, ctx, test_suite_htab, test_func_htab,
                   ts, tf, tf_ret, ret, timers, bres, stdout, stderr,
                   handler_runs, log_calls, entry_calls, tf_calls>>

ts_abi_violation ==
    /\ pc = "ts_abi"
    /\ calls < MaxAbiChecks
    /\ calls' = calls + 1
    /\ call_log_failure("ts_abi")
    /\ UNCHANGED <<configured, ctx, test_suite_htab, test_func_htab, ts, tf,
                   tf_ret, ret, timers, bres, stdout, stderr, handler_runs,
                   entry_calls, tf_calls>>

ts_abi_return ==
    /\ pc = "ts_abi"
    /\ calls = MaxAbiChecks
    /\ pc' = "run_abi_ret"
    /\ UNCHANGED <<ret_pc, configured, ctx, test_suite_htab, test_func_htab, ts,
                   tf, tf_ret, ret, timers, bres, calls, stdout, stderr,
                   handler_runs, log_calls, entry_calls, tf_calls>>

(* bench: two timed phases, the vDSO calls and then the system calls *)
BenchPhases == {"vdso", "sys"}
BenchStart(ph) == IF ph = "vdso" THEN "ts_bench_vdso" ELSE "ts_bench_sys"
BenchLoop(ph) == IF ph = "vdso" THEN "ts_bench_vdso_loop" ELSE "ts_bench_sys_loop"
BenchBody(ph) == IF ph = "vdso" THEN "ts_bench_vdso_body" ELSE "ts_bench_sys_body"
BenchNext(ph) == IF ph = "vdso" THEN "ts_bench_sys" ELSE "run_bench_ret"

ts_bench_start(ph) ==
    /\ \E os_ok \in BOOLEAN : ctx_start_timer(BenchStart(ph), BenchLoop(ph), os_ok)
    /\ calls' = 0

(* the loop condition found false: run the body *)
ts_bench_poll(ph) ==
    /\ pc = BenchLoop(ph)
    /\ ~ctx.should_stop
    /\ pc' = BenchBody(ph)
    /\ UNCHANGED <<ret_pc, configured, ctx, test_suite_htab, test_func_htab, ts,
                   tf, tf_ret, ret, timers, bres, calls, stdout, stderr,
                   handler_runs, log_calls, entry_calls, tf_calls>>

ts_bench_call(ph) ==
    /\ pc = BenchBody(ph)
    /\ calls' = Min(calls + 1, MaxCalls)
    /\ pc' = BenchLoop(ph)
    /\ UNCHANGED <<ret_pc, configured, ctx, test_suite_htab, test_func_htab,
                   ts, tf, tf_ret, ret, timers, bres, stdout, stderr,
                   handler_runs, log_calls, entry_calls, tf_calls>>

ts_bench_mismatch(ph) ==
    /\ pc = BenchBody(ph)
    /\ call_log_failure(BenchLoop(ph))
    /\ UNCHANGED <<configured, ctx, test_suite_htab, test_func_htab, ts, tf,
                   tf_ret, ret, timers, bres, calls, stdout, stderr,
                   handler_runs, entry_calls, tf_calls>>

(* end of a phase: rate = calls / elapsed seconds of the phase *)
ts_bench_stop(ph) ==
    /\ pc = BenchLoop(ph)
    /\ ctx.should_stop
    /\ \E elapsed \in 1 .. MaxElapsed :
          bres' = [bres EXCEPT ![ph] = [calls |-> calls,
                                        calls_per_sec |-> calls \div elapsed]]
    /\ pc' = BenchNext(ph)
    /\ UNCHANGED <<ret_pc, configured, ctx, test_suite_htab, test_func_htab, ts,
                   tf, tf_ret, ret, timers, calls, stdout, stderr,
                   handler_runs, log_calls, entry_calls, tf_calls>>

ts_verify ==
    \/ ts_verify_start \/ ts_verify_poll \/ ts_verify_pass
    \/ ts_verify_mismatch \/ ts_verify_return
ts_abi == ts_abi_pass \/ ts_abi_violation \/ ts_abi_return
ts_bench ==
    \E ph \in BenchPhases :
        \/ ts_bench_start(ph) \/ ts_bench_poll(ph) \/ ts_bench_call(ph)
        \/ ts_bench_mismatch(ph) \/ ts_bench_stop(ph)

----------------------------------------------------------------------------
(* Mode dispatchers *)

HasEntry(suite, mode) == mode \in SuiteObjects[suite]

(* (long double)a / (long double)b as printed by %.2LF: IEEE division, so a *)
(* zero divisor gives inf (or nan for 0/0) instead of trapping              *)
long_double_div(a, b) ==
    IF b = 0
    THEN [class |-> IF a = 0 THEN "nan" ELSE "inf", hundredths |-> 0]
    ELSE [class |-> "finite", hundredths |-> (200 * a + b) \div (2 * b)]

(* verbose(): prints only with --verbose or --debug *)
verbose(c, line) == IF ~c.verbose /\ ~c.debug THEN <<>> ELSE <<line>>

(* variant: split_duration called before the test for a bench entry point *)
testsuite_run_bench_call_split_first ==
    /\ pc = "main_call_tf"
    /\ tf = "testsuite_run_bench"
    /\ tf_calls' = tf_calls + 1
    /\ ctx' = [ctx EXCEPT !.duration = split_duration(ctx.duration)]
    /\ IF ~HasEntry(ts, "bench")
       THEN /\ tf_ret' = TF_NOIMPL
            /\ pc' = "main_report"
            /\ UNCHANGED <<bres, entry_calls>>
       ELSE /\ bres' = [vdso |-> [calls |-> 0, calls_per_sec |-> 0],
                        sys  |-> [calls |-> 0, calls_per_sec |-> 0]]
            /\ entry_calls' = entry_calls + 1
            /\ pc' = "ts_bench_vdso"
            /\ UNCHANGED tf_ret
    /\ UNCHANGED <<ret_pc, configured, test_suite_htab, test_func_htab, ts, tf,
                   ret, timers, calls, stdout, stderr, handler_runs, log_calls>>

testsuite_run_bench_call ==
    /\ pc = "main_call_tf"
    /\ tf = "testsuite_run_bench"
    /\ tf_calls' = tf_calls + 1
    /\ IF ~HasEntry(ts, "bench")
       THEN /\ tf_ret' = TF_NOIMPL
            /\ pc' = "main_report"
            /\ UNCHANGED <<ctx, bres, entry_calls>>
       ELSE /\ ctx' = [ctx EXCEPT !.duration = split_duration(ctx.duration)]
            /\ bres' = [vdso |-> [calls |-> 0, calls_per_sec |-> 0],
                        sys  |-> [calls |-> 0, calls_per_sec |-> 0]]
            /\ entry_calls' = entry_calls + 1
            /\ pc' = "ts_bench_vdso"
            /\ UNCHANGED tf_ret
    /\ UNCHANGED <<ret_pc, configured, test_suite_htab, test_func_htab, ts, tf,
                   ret, timers, calls, stdout, stderr, handler_runs, log_calls>>

(* variant: the rates are printed before the failure counter is tested *)
testsuite_run_bench_ret_prints_first ==
    /\ pc = "run_bench_ret"
    /\ stdout' = stdout
         \o verbose(ctx, [line |-> "calls", sys |-> bres.sys.calls,
                          vdso |-> bres.vdso.calls])
         \o << [line |-> "sys_per_sec", rate |-> bres.sys.calls_per_sec],
               [line |-> "vdso_per_sec", rate |-> bres.vdso.calls_per_sec,
                speedup |-> long_double_div(bres.vdso.calls_per_sec,
                                            bres.sys.calls_per_sec)] >>
    /\ tf_ret' = IF ctx.fails # 0 THEN TF_FAIL ELSE TF_OK
    /\ pc' = "main_report"
    /\ UNCHANGED <<ret_pc, configured, ctx, test_suite_htab, test_func_htab, ts,
                   tf, ret, timers, bres, calls, stderr, handler_runs,
                   log_calls, entry_calls, tf_calls>>

testsuite_run_bench_ret ==
    /\ pc = "run_bench_ret"
    /\ IF ctx.fails # 0
       THEN /\ tf_ret' = TF_FAIL
            /\ UNCHANGED stdout
       ELSE /\ stdout' = stdout
                 \o verbose(ctx, [line |-> "calls", sys |-> bres.sys.calls,
                                  vdso |-> bres.vdso.calls])
                 \o << [line |-> "sys_per_sec", rate |-> bres.sys.calls_per_sec],
                       [line |-> "vdso_per_sec", rate |-> bres.vdso.calls_per_sec,
                        speedup |-> long_double_div(bres.vdso.calls_per_sec,
                                                    bres.sys.calls_per_sec)] >>
            /\ tf_ret' = TF_OK
    /\ pc' = "main_report"
    /\ UNCHANGED <<ret_pc, configured, ctx, test_suite_htab, test_func_htab, ts,
                   tf, ret, timers, bres, calls, stderr, handler_runs,
                   log_calls, entry_calls, tf_calls>>

testsuite_run_bench == testsuite_run_bench_call \/ testsuite_run_bench_ret

testsuite_run_verify_call ==
    /\ pc = "main_call_tf"
    /\ tf = "testsuite_run_verify"
    /\ tf_calls' = tf_calls + 1
    /\ IF ~HasEntry(ts, "verify")
       THEN /\ tf_ret' = TF_NOIMPL
            /\ pc' = "main_report"
            /\ UNCHANGED entry_calls
       ELSE /\ entry_calls' = entry_calls + 1
            /\ pc' = "ts_verify"
            /\ UNCHANGED tf_ret
    /\ UNCHANGED <<ret_pc, configured, ctx, test_suite_htab, test_func_htab, ts,
                   tf, ret, timers, bres, calls, stdout, stderr, handler_runs,
                   log_calls>>

(* variant: FAIL only once the threshold has been reached *)
testsuite_run_verify_ret_threshold ==
    /\ pc = "run_verify_ret"
    /\ tf_ret' = IF ctx.fails >= ctx.max_fails THEN TF_FAIL ELSE TF_OK
    /\ pc' = "main_report"
    /\ UNCHANGED <<ret_pc, configured, ctx, test_suite_htab, test_func_htab, ts,
                   tf, ret, timers, bres, calls, stdout, stderr, handler_runs,
                   log_calls, entry_calls, tf_calls>>

testsuite_run_verify_ret ==
    /\ pc = "run_verify_ret"
    /\ tf_ret' = IF ctx.fails # 0 THEN TF_FAIL ELSE TF_OK
    /\ pc' = "main_report"
    /\ UNCHANGED <<ret_pc, configured, ctx, test_suite_htab, test_func_htab, ts,
                   tf, ret, timers, bres, calls, stdout, stderr, handler_runs,
                   log_calls, entry_calls, tf_calls>>

testsuite_run_verify == testsuite_run_verify_call \/ testsuite_run_verify_ret

(* variant: the test for the abi entry point inverted *)
testsuite_run_abi_call_inverted ==
    /\ pc = "main_call_tf"
    /\ tf = "testsuite_run_abi"
    /\ tf_calls' = tf_calls + 1
    /\ IF HasEntry(ts, "abi")
       THEN /\ tf_ret' = TF_NOIMPL
            /\ pc' = "main_report"
            /\ UNCHANGED entry_calls
       ELSE /\ entry_calls' = entry_calls + 1
            /\ pc' = "ts_abi"
            /\ UNCHANGED tf_ret
    /\ UNCHANGED <<ret_pc, configured, ctx, test_suite_htab, test_func_htab, ts,
                   tf, ret, timers, bres, calls, stdout, stderr, handler_runs,
                   log_calls>>

testsuite_run_abi_call ==
    /\ pc = "main_call_tf"
    /\ tf = "testsuite_run_abi"
    /\ tf_calls' = tf_calls + 1
    /\ IF ~HasEntry(ts, "abi")
       THEN /\ tf_ret' = TF_NOIMPL
            /\ pc' = "main_report"
            /\ UNCHANGED entry_calls
       ELSE /\ entry_calls' = entry_calls + 1
            /\ pc' = "ts_abi"
            /\ UNCHANGED tf_ret
    /\ UNCHANGED <<ret_pc, configured, ctx, test_suite_htab, test_func_htab, ts,
                   tf, ret, timers, bres, calls, stdout, stderr, handler_runs,
                   log_calls>>

testsuite_run_abi_ret ==
    /\ pc = "run_abi_ret"
    /\ tf_ret' = IF ctx.fails # 0 THEN TF_FAIL ELSE TF_OK
    /\ pc' = "main_report"
    /\ UNCHANGED <<ret_pc, configured, ctx, test_suite_htab, test_func_htab, ts,
                   tf, ret, timers, bres, calls, stdout, stderr, handler_runs,
                   log_calls, entry_calls, tf_calls>>

testsuite_run_abi == testsuite_run_abi_call \/ testsuite_run_abi_ret

----------------------------------------------------------------------------
(* Driver *)

lookup_ts(name) == hashtable_lookup(test_suite_htab, name)

lookup_tf(name) == hashtable_lookup(test_func_htab, name)

(* main, lines 344-348 *)
main_lookup_ts ==
    /\ pc = "main_lookup_ts"
    /\ ts' = lookup_ts(ctx.api)
    /\ IF ts' = NULL
       THEN /\ stderr' = Append(stderr, "error")
            /\ ret' = EXIT_FAILURE
            /\ pc' = "fatal"
       ELSE /\ pc' = "main_lookup_tf"
            /\ UNCHANGED <<stderr, ret>>
    /\ UNCHANGED <<ret_pc, configured, ctx, test_suite_htab, test_func_htab, tf,
                   tf_ret, timers, bres, calls, stdout, handler_runs,
                   log_calls, entry_calls, tf_calls>>

(* variant: an unknown mode name falls back to the verify dispatcher *)
main_lookup_tf_fallback ==
    /\ pc = "main_lookup_tf"
    /\ tf' = IF lookup_tf(ctx.test_type) = NULL
             THEN "testsuite_run_verify" ELSE lookup_tf(ctx.test_type)
    /\ pc' = "main_call_tf"
    /\ UNCHANGED <<ret_pc, configured, ctx, test_suite_htab, test_func_htab, ts,
                   tf_ret, ret, timers, bres, calls, stdout, stderr,
                   handler_runs, log_calls, entry_calls, tf_calls>>

(* main, lines 350-354 *)
main_lookup_tf ==
    /\ pc = "main_lookup_tf"
    /\ tf' = lookup_tf(ctx.test_type)
    /\ IF tf' = NULL
       THEN /\ stderr' = Append(stderr, "error")
            /\ ret' = EXIT_FAILURE
            /\ pc' = "fatal"
       ELSE /\ pc' = "main_call_tf"
            /\ UNCHANGED <<stderr, ret>>
    /\ UNCHANGED <<ret_pc, configured, ctx, test_suite_htab, test_func_htab, ts,
                   tf_ret, timers, bres, calls, stdout, handler_runs,
                   log_calls, entry_calls, tf_calls>>

(* variant: every outcome other than OK gives a failure exit status *)
main_report_not_ok ==
    /\ pc = "main_report"
    /\ IF tf_ret = TF_NOIMPL
       THEN /\ stdout' = Append(stdout, [line |-> "unimplemented"])
            /\ ret' = EXIT_FAILURE
       ELSE IF ctx.fails > 0
            THEN /\ stdout' = Append(stdout, [line |-> "failures", count |-> ctx.fails])
                 /\ ret' = EXIT_FAILURE
            ELSE UNCHANGED <<stdout, ret>>
    /\ pc' = "exit"
    /\ UNCHANGED <<ret_pc, configured, ctx, test_suite_htab, test_func_htab, ts,
                   tf, tf_ret, timers, bres, calls, stderr, handler_runs,
                   log_calls, entry_calls, tf_calls>>

(* main, lines 358-366 *)
main_report ==
    /\ pc = "main_report"
    /\ IF tf_ret = TF_NOIMPL
       THEN /\ stdout' = Append(stdout, [line |-> "unimplemented"])
            /\ UNCHANGED ret
       ELSE IF ctx.fails > 0
            THEN /\ stdout' = Append(stdout, [line |-> "failures", count |-> ctx.fails])
                 /\ ret' = EXIT_FAILURE
            ELSE UNCHANGED <<stdout, ret>>
    /\ pc' = "exit"
    /\ UNCHANGED <<ret_pc, configured, ctx, test_suite_htab, test_func_htab, ts,
                   tf, tf_ret, timers, bres, calls, stderr, handler_runs,
                   log_calls, entry_calls, tf_calls>>

main == main_lookup_ts \/ main_lookup_tf \/ main_report

----------------------------------------------------------------------------
Mismatch ==
    \/ ts_verify_mismatch
    \/ ts_abi_violation
    \/ \E ph \in BenchPhases : ts_bench_mismatch(ph)

(* every step of the main thread except a suite's choice to report a failure *)
Progress ==
    \/ main
    \/ testsuite_run_verify \/ testsuite_run_abi \/ testsuite_run_bench
    \/ ts_verify_start \/ ts_verify_poll \/ ts_verify_pass \/ ts_verify_return
    \/ ts_abi_pass \/ ts_abi_return
    \/ \E ph \in BenchPhases :
          ts_bench_start(ph) \/ ts_bench_poll(ph) \/ ts_bench_call(ph) \/ ts_bench_stop(ph)
    \/ log_failure \/ inc_fail_count

Next ==
    \/ main
    \/ testsuite_run_verify
    \/ testsuite_run_abi
    \/ testsuite_run_bench
    \/ ts_verify
    \/ ts_abi
    \/ ts_bench
    \/ log_failure
    \/ inc_fail_count
    \/ Expire

Spec == Init /\ [][Next]_vars

(* The main thread keeps running and the OS delivers the expiry of an armed *)
(* timer; whether a suite reports a mismatch is up to the suite             *)
FairSpec == Spec /\ WF_vars(Progress) /\ WF_vars(Expire)

----------------------------------------------------------------------------
(* Properties *)

LogFailurePcs == {"log_failure", "inc_fail_count", "inc_fail_count_check"}
TimedLoops == {"ts_verify_loop", "ts_bench_vdso_loop", "ts_bench_sys_loop"}

(* the main thread is inside the timed loop l (or in a log_failure it called) *)
LoopBody(l) ==
    CASE l = "ts_verify_loop" -> "ts_verify_body"
      [] l = "ts_bench_vdso_loop" -> "ts_bench_vdso_body"
      [] l = "ts_bench_sys_loop" -> "ts_bench_sys_body"

InPhase(l) == pc \in {l, LoopBody(l)} \/ (pc \in LogFailurePcs /\ ret_pc = l)

StartTimerStep == ts_verify_start \/ \E ph \in BenchPhases : ts_bench_start(ph)

(* C1: between a ctx_start_timer call and the next one (or the end of the   *)
(* run) the expiration handler runs at most once, in every interleaving.    *)
C1_HandlerOncePerArm == handler_runs <= 1

(* C2: when the threshold test of a log_failure call finds the counter at   *)
(* or above max_fails, should_stop is true when the call returns, and only  *)
(* a ctx_start_timer call ever turns should_stop from true to false.        *)
C2_StopStaysSet ==
    [][ /\ (pc = "inc_fail_count_check" /\ pc' = ret_pc /\ ctx.fails >= ctx.max_fails)
           => ctx'.should_stop
        /\ (ctx.should_stop /\ ~ctx'.should_stop) => StartTimerStep ]_vars

C2_Witness ==
    /\ pc = "main_report"
    /\ ctx.fails >= ctx.max_fails
    /\ ctx.should_stop
    /\ \A i \in DOMAIN timers : timers[i] # "fired"

(* C3: once a timed loop has been entered (its timer started), the loop is  *)
(* eventually left, for every configured duration.                          *)
C3_LoopsAreLeft == \A l \in TimedLoops : InPhase(l) ~> ~InPhase(l)

(* C4: the failure counter changes only in the increment of inc_fail_count, *)
(* by exactly 1, and it equals the number of log_failure calls made (less   *)
(* the one whose increment is still to come).                               *)
C4_CounterIsCallCount ==
    ctx.fails = log_calls - (IF pc \in {"log_failure", "inc_fail_count"} THEN 1 ELSE 0)

C4_Monotone ==
    /\ []C4_CounterIsCallCount
    /\ [][ ctx'.fails # ctx.fails
             => (pc = "inc_fail_count" /\ ctx'.fails = ctx.fails + 1) ]_vars

C4_Witness ==
    /\ log_calls >= 2
    /\ ctx.fails = log_calls
    /\ handler_runs >= 1
    /\ Len(timers) = 2

(* C5: a dispatcher that ran its entry point returns FAIL iff the failure   *)
(* counter is non-zero, and OK otherwise, whatever stopped the entry point. *)
C5_OutcomeByCounter ==
    tf_ret \in {TF_OK, TF_FAIL} => (tf_ret = TF_FAIL <=> ctx.fails # 0)

C5_Witness ==
    /\ tf_ret = TF_FAIL
    /\ tf = "testsuite_run_verify"
    /\ ctx.fails < ctx.max_fails
    /\ handler_runs = 1

(* C6: a dispatcher that finds the mode's entry point absent returns        *)
(* NOT_IMPLEMENTED with no entry point invoked, exit status 0, and the      *)
(* failure counter, stop flag and configured duration untouched.            *)
C6_NotImplementedFrame ==
    tf_ret = TF_NOIMPL =>
        /\ entry_calls = 0
        /\ log_calls = 0
        /\ ctx.fails = 0
        /\ ~ctx.should_stop
        /\ ctx.duration = configured
        /\ timers = <<>>
        /\ pc \in {"main_report", "exit"}
        /\ ret = EXIT_SUCCESS

C6_Witness ==
    /\ pc = "exit"
    /\ tf_ret = TF_NOIMPL
    /\ tf = "testsuite_run_bench"
    /\ configured.tv_sec = 1

(* C7: when main returns, the exit status is non-zero iff the dispatcher    *)
(* did not return NOT_IMPLEMENTED and the counter is positive, i.e. iff the *)
(* dispatcher returned FAIL.                                                *)
C7_ExitStatus ==
    pc = "exit" =>
        /\ (ret # 0) <=> (tf_ret # TF_NOIMPL /\ ctx.fails > 0)
        /\ (ret # 0) <=> (tf_ret = TF_FAIL)
        /\ tf_ret \in {TF_OK, TF_FAIL, TF_NOIMPL}

C7_Witness ==
    /\ pc = "exit"
    /\ ret # 0
    /\ tf = "testsuite_run_bench"

(* C8: with an unregistered API or mode name the process ends in the fatal  *)
(* exit with a non-zero status, no dispatcher or entry point having run and *)
(* the counter, stop flag and registries as they were.                      *)
UnknownName == lookup_ts(ctx.api) = NULL \/ lookup_tf(ctx.test_type) = NULL

C8_UnknownNameFrame ==
    UnknownName =>
        /\ tf_calls = 0
        /\ entry_calls = 0
        /\ ctx.fails = 0
        /\ ~ctx.should_stop
        /\ timers = <<>>
        /\ test_func_htab = register_testfuncs
        /\ pc \in {"main_lookup_ts", "main_lookup_tf", "fatal"}
        /\ pc = "fatal" => ret # 0

C8_UnknownNameFatal ==
    /\ []C8_UnknownNameFrame
    /\ [][UnknownName => UNCHANGED <<test_suite_htab, test_func_htab>>]_vars

C8_Witness ==
    /\ pc = "fatal"
    /\ ts # NULL
    /\ tf = NULL
    /\ ctx.test_type = "bogus"

(* C9: from the invocation of the bench entry point on, the per-phase       *)
(* deadline is half the configured duration (twice it, in nanoseconds, is   *)
(* D * 10^9); verify and abi runs keep the configured duration.             *)
C9_HalvedOnce ==
    /\ (tf = "testsuite_run_bench" /\ entry_calls > 0) =>
          /\ timespec_to_nsec(configured) - timespec_to_nsec(ctx.duration)
                = timespec_to_nsec(ctx.duration)
          /\ timespec_to_nsec(configured) = configured.tv_sec * NSEC_PER_SEC
    /\ tf \in {"testsuite_run_verify", "testsuite_run_abi"} => ctx.duration = configured
    /\ entry_calls = 0 => ctx.duration = configured

C9_Witness ==
    /\ pc = "ts_bench_sys_loop"
    /\ configured = [tv_sec |-> 1, tv_nsec |-> 0]
    /\ ctx.duration = [tv_sec |-> 0, tv_nsec |-> 500000000]

(* C10: a bench run that ends OK with a zero kernel-entry rate does not     *)
(* print a speedup obtained by dividing by that zero rate.                  *)
C10_ZeroRateNotDivided ==
    (tf = "testsuite_run_bench" /\ tf_ret = TF_OK /\ bres.sys.calls_per_sec = 0) =>
        \A i \in DOMAIN stdout :
            stdout[i].line = "vdso_per_sec" => stdout[i].speedup.class = "finite"

(* C11: should_stop turns from false to true only in a run of the          *)
(* expiration handler or in the threshold test of a log_failure call that   *)
(* finds the counter at or above max_fails; a threshold test that finds the *)
(* counter below max_fails leaves should_stop as it was.                    *)
C11_StopSetOnlyByTimerOrThreshold ==
    [][ /\ (~ctx.should_stop /\ ctx'.should_stop)
           => \/ handler_runs' = handler_runs + 1
              \/ (pc = "inc_fail_count_check" /\ pc' = ret_pc
                  /\ ctx.fails >= ctx.max_fails)
        /\ (pc = "inc_fail_count_check" /\ pc' = ret_pc /\ ctx.fails < ctx.max_fails)
           => ctx'.should_stop = ctx.should_stop ]_vars

C11_Witness ==
    /\ pc = "ts_verify_loop"
    /\ log_calls = 1
    /\ ctx.fails = 1
    /\ ctx.fails < ctx.max_fails
    /\ ~ctx.should_stop

(* C12: a ctx_start_timer call leaves should_stop false, whatever it was    *)
(* and even with the counter at or above max_fails, and does not change the *)
(* counter, the threshold or the configured duration.                       *)
StartTimerPcs == {"ts_verify", "ts_bench_vdso", "ts_bench_sys"}

C12_StartTimerResetsFlag ==
    [][ (pc \in StartTimerPcs /\ pc' # pc)
          => /\ ~ctx'.should_stop
             /\ ctx'.fails = ctx.fails
             /\ ctx'.max_fails = ctx.max_fails
             /\ ctx'.duration = ctx.duration ]_vars

C12_Witness ==
    /\ pc = "ts_bench_sys_loop"
    /\ ctx.fails >= ctx.max_fails
    /\ ctx.fails > 0
    /\ ~ctx.should_stop
    /\ handler_runs = 0

Count(seq, x) == Cardinality({i \in DOMAIN seq : seq[i] = x})

(* a verify run, ended by main's return, of a suite with a verify entry     *)
(* point every iteration of which reported a mismatch, with threshold >= 1  *)
VerifyRunOfMismatches ==
    /\ pc = "exit"
    /\ tf = "testsuite_run_verify"
    /\ HasEntry(ts, "verify")
    /\ ctx.max_fails >= 1
    /\ calls = 0

EntryPc(m) ==
    CASE m = "verify" -> "ts_verify"
      [] m = "bench"  -> "ts_bench_vdso"
      [] m = "abi"    -> "ts_abi"

(* C14: lookup_tf finds exactly the names verify, bench and abi; the entry  *)
(* point a run invokes is the one named by the requested mode; any other    *)
(* mode name gives NULL, on which main exits fatally with no dispatcher run.*)
C14_Resolution ==
    /\ \A n \in TypeArgs : lookup_tf(n) # NULL <=> n \in {"verify", "bench", "abi"}
    /\ ctx.test_type \notin {"verify", "bench", "abi"} =>
          /\ tf = NULL
          /\ tf_calls = 0
          /\ entry_calls = 0
          /\ pc \in {"main_lookup_ts", "main_lookup_tf", "fatal"}
          /\ pc = "fatal" => ret # 0

C14_ModeRegistry ==
    /\ []C14_Resolution
    /\ [][ entry_calls' # entry_calls
             => /\ pc' = EntryPc(ctx.test_type)
                /\ HasEntry(ts, ctx.test_type) ]_vars

C14_Witness ==
    /\ pc = "ts_abi"
    /\ ctx.test_type = "abi"
    /\ tf = "testsuite_run_abi"
    /\ entry_calls = 1

(* C15: a run whose dispatcher returns goes START -> NOT_IMPLEMENTED or     *)
(* START -> RUNNING -> (OK | FAIL): the entry point is invoked once if the  *)
(* suite has it and never otherwise, the outcome is set once, from no       *)
(* outcome, to one of the three, and a loop ended by the stop flag gives OK *)
(* or FAIL like any other.                                                  *)
DispatcherReturnPcs == {"run_verify_ret", "run_abi_ret", "run_bench_ret"}

C15_Outcome ==
    /\ entry_calls <= 1
    /\ tf_calls <= 1
    /\ tf_ret \in {TF_NONE, TF_OK, TF_FAIL, TF_NOIMPL}
    /\ IF pc \in {"main_report", "exit"}
       THEN /\ tf_ret \in {TF_OK, TF_FAIL, TF_NOIMPL}
            /\ tf_calls = 1
            /\ entry_calls = (IF HasEntry(ts, ctx.test_type) THEN 1 ELSE 0)
            /\ tf_ret = TF_NOIMPL <=> ~HasEntry(ts, ctx.test_type)
       ELSE tf_ret = TF_NONE

C15_RunStateMachine ==
    /\ []C15_Outcome
    /\ [][ tf_ret' # tf_ret
             => /\ tf_ret = TF_NONE
                /\ pc' = "main_report"
                /\ IF tf_ret' = TF_NOIMPL
                   THEN pc = "main_call_tf" /\ entry_calls' = 0
                   ELSE pc \in DispatcherReturnPcs /\ entry_calls = 1 ]_vars

C15_Witness ==
    /\ pc = "exit"
    /\ tf = "testsuite_run_verify"
    /\ tf_ret = TF_OK
    /\ ctx.should_stop
    /\ handler_runs = 1
    /\ entry_calls = 1

(* C16: a run of the expiration handler writes should_stop = true in ctx    *)
(* and nothing else: every other field of ctx, the main thread's position   *)
(* and locals, the bench results, the registries and the output are as they *)
(* were, wherever the main thread was interrupted.                          *)
C16_HandlerWritesOnlyFlag ==
    [][ handler_runs' = handler_runs + 1
          => /\ ctx' = [ctx EXCEPT !.should_stop = TRUE]
             /\ UNCHANGED <<pc, ret_pc, configured, test_suite_htab,
                            test_func_htab, ts, tf, tf_ret, ret, bres, calls,
                            stdout, stderr, log_calls, entry_calls, tf_calls>>
             /\ Len(timers') = Len(timers) ]_vars

(* the handler has run by the time log_failure is between its increment and *)
(* its threshold test, the counter still below the threshold                *)
C16_Witness ==
    /\ pc = "inc_fail_count_check"
    /\ handler_runs = 1
    /\ ctx.should_stop
    /\ ctx.fails < ctx.max_fails
    /\ ctx.fails = log_calls

Lines(kind) == {i \in DOMAIN stdout : stdout[i].line = kind}

(* C17: in a bench run of a suite with a bench entry point, the line of the *)
(* kernel-entry rate and the line of the fast-path rate with the speedup    *)
(* are on stdout, once each and with the measured rates, exactly when the   *)
(* outcome is OK; with a failure recorded the outcome is FAIL and neither   *)
(* line is printed.  No other run prints them.                              *)
C17_RatesIffOk ==
    /\ (tf = "testsuite_run_bench" /\ tf_ret = TF_OK) =>
          /\ ctx.fails = 0
          /\ \E i \in Lines("sys_per_sec"), j \in Lines("vdso_per_sec") :
                /\ Lines("sys_per_sec") = {i}
                /\ Lines("vdso_per_sec") = {j}
                /\ i < j
                /\ stdout[i].rate = bres.sys.calls_per_sec
                /\ stdout[j].rate = bres.vdso.calls_per_sec
                /\ stdout[j].speedup = long_double_div(bres.vdso.calls_per_sec,
                                                       bres.sys.calls_per_sec)
    /\ ~(tf = "testsuite_run_bench" /\ tf_ret = TF_OK) =>
          Lines("sys_per_sec") \cup Lines("vdso_per_sec") = {}
    /\ (tf = "testsuite_run_bench" /\ pc \in {"main_report", "exit"}
        /\ tf_ret # TF_NOIMPL /\ ctx.fails # 0) => tf_ret = TF_FAIL

C17_Witness ==
    /\ pc = "exit"
    /\ tf = "testsuite_run_bench"
    /\ tf_ret = TF_OK
    /\ bres.sys.calls_per_sec = 1
    /\ bres.vdso.calls_per_sec = 2
    /\ \E j \in Lines("vdso_per_sec") :
          stdout[j].speedup = [class |-> "finite", hundredths |-> 200]

====
